---- MODULE Spec2Model ----
(***************************************************************************)
(* A model of querier-ts: the Query pipeline (src/src/query.ts), the row   *)
(* validator (src/src/query-row-validator.ts), the numeric argument        *)
(* validation decorators (src/src/utils/decorators/number-validaton.ts)    *)
(* and the helpers they call.                                              *)
(*                                                                         *)
(* JavaScript values are records of one shape, so that any two of them can *)
(* be compared:                                                            *)
(*   t  the type tag: "undefined", "null", "boolean", "number", "string",  *)
(*      "array", "object", "function", and "empty" for the hole of a       *)
(*      sparse array                                                       *)
(*   n  the integer part (floor) of a number, 0/1 of a boolean, the        *)
(*      identity of a function                                             *)
(*   h  1 when a number has the fractional part .5, else 0                 *)
(*   s  the characters of a string; for a number "" when it is finite and  *)
(*      within the safe range, else "NaN", "Infinity", "-Infinity", "2^53" *)
(*   a  the elements of an array                                           *)
(*   o  the own enumerable properties of an object, in enumeration order,  *)
(*      each [k |-> name, v |-> value]                                     *)
(***************************************************************************)
EXTENDS Integers, Sequences, FiniteSets, TLC

Val(t, n, h, s, a, o) == [t |-> t, n |-> n, h |-> h, s |-> s, a |-> a, o |-> o]

Undefined == Val("undefined", 0, 0, "", <<>>, <<>>)
Null      == Val("null", 0, 0, "", <<>>, <<>>)
Empty     == Val("empty", 0, 0, "", <<>>, <<>>)
Bool(b)   == Val("boolean", IF b THEN 1 ELSE 0, 0, "", <<>>, <<>>)
Num(i)    == Val("number", i, 0, "", <<>>, <<>>)
Half(i)   == Val("number", i, 1, "", <<>>, <<>>)
NaN       == Val("number", 0, 0, "NaN", <<>>, <<>>)
Infinity  == Val("number", 0, 0, "Infinity", <<>>, <<>>)
NegativeInfinity == Val("number", 0, 0, "-Infinity", <<>>, <<>>)
\* Number.MAX_SAFE_INTEGER + 1
BeyondSafe == Val("number", 0, 0, "2^53", <<>>, <<>>)
Str(s)    == Val("string", 0, 0, s, <<>>, <<>>)
Arr(a)    == Val("array", 0, 0, "", a, <<>>)
Obj(o)    == Val("object", 0, 0, "", <<>>, o)
Fn(i)     == Val("function", i, 0, "", <<>>, <<>>)
P(k, v)   == [k |-> k, v |-> v]

\* The outcome of a call: it returns a value, or it throws one.
Return(v) == [threw |-> FALSE, v |-> v]
Throw(v)  == [threw |-> TRUE, v |-> v]
TypeError == Str("TypeError")

----------------------------------------------------------------------------
(* The language's own operations that the code relies on.                  *)

\* a === b on primitives; arrays, objects and functions are compared by
\* identity, and the model gives an identity to functions only.
StrictEquals(a, b) ==
  /\ a.t = b.t
  /\ CASE a.t = "number"   -> a.s # "NaN" /\ b.s # "NaN" /\ a.n = b.n /\ a.h = b.h /\ a.s = b.s
       [] a.t = "string"   -> a.s = b.s
       [] a.t = "boolean"  -> a.n = b.n
       [] a.t = "function" -> a.n = b.n
       [] a.t \in {"undefined", "null"} -> TRUE
       [] OTHER -> FALSE

\* ToBoolean
Truthy(v) ==
  CASE v.t \in {"undefined", "null", "empty"} -> FALSE
    [] v.t = "boolean" -> v.n = 1
    [] v.t = "number"  -> ~(v.s = "NaN" \/ (v.s = "" /\ v.n = 0 /\ v.h = 0))
    [] v.t = "string"  -> v.s # ""
    [] OTHER -> TRUE

\* a[i] with i counted from 0; a hole, or an index out of range, reads as
\* undefined.
At(arr, i) ==
  IF i < 0 \/ i >= Len(arr.a) THEN Undefined
  ELSE IF arr.a[i + 1].t = "empty" THEN Undefined ELSE arr.a[i + 1]

\* The index a property name denotes, -1 when it is not an index.
IndexNames == <<"0", "1", "2", "3">>

IndexOf(key) ==
  IF \E i \in 1..Len(IndexNames) : IndexNames[i] = key
  THEN (CHOOSE i \in 1..Len(IndexNames) : IndexNames[i] = key) - 1
  ELSE -1

RECURSIVE Lookup(_, _, _)
Lookup(o, key, i) ==
  IF i > Len(o) THEN Undefined
  ELSE IF o[i].k = key THEN o[i].v ELSE Lookup(o, key, i + 1)

\* value[key] as the code reads it, of a value that is not null or undefined:
\* an own property of an object, an element or the length of an array,
\* undefined when there is none.
Get(value, key) ==
  CASE value.t = "object" -> Lookup(value.o, key, 1)
    [] value.t = "array"  -> IF key = "length" THEN Num(Len(value.a))
                             ELSE At(value, IndexOf(key))
    [] OTHER -> Undefined

\* Object.keys(obj) and Object.values(obj)
Keys(obj)   == [i \in 1..Len(obj.o) |-> obj.o[i].k]
Values(obj) == [i \in 1..Len(obj.o) |-> obj.o[i].v]

\* ToIntegerOrInfinity, the infinities clipped to a magnitude beyond any
\* length of the model.
ToIntegerOrInfinity(v) ==
  CASE v.t = "number" /\ v.s = ""          -> IF v.n < 0 /\ v.h = 1 THEN v.n + 1 ELSE v.n
    [] v.t = "number" /\ v.s = "Infinity"  -> 1000000
    [] v.t = "number" /\ v.s = "-Infinity" -> -1000000
    [] v.t = "boolean"                     -> v.n
    [] OTHER                               -> 0

Min(x, y) == IF x < y THEN x ELSE y
Max(x, y) == IF x > y THEN x ELSE y

\* Array.prototype.slice(start, end) on a sequence; an undefined end is the
\* length.
Slice(seq, start, end) ==
  LET len   == Len(seq)
      rs    == ToIntegerOrInfinity(start)
      k     == IF rs < 0 THEN Max(len + rs, 0) ELSE Min(rs, len)
      re    == IF end.t = "undefined" THEN len ELSE ToIntegerOrInfinity(end)
      final == IF re < 0 THEN Max(len + re, 0) ELSE Min(re, len)
  IN  SubSeq(seq, k + 1, final)

\* ToNumber of the values the rows of the model hold in a compared column.
IsNumeric(v) == v.t \in {"number", "null", "undefined", "boolean"}

IsNaN(v) == v.t = "undefined" \/ (v.t = "number" /\ v.s = "NaN")

\* a < b of two values that compare as numbers (twice the value, so that a
\* half is an integer); a NaN is less than nothing.
Twice(v) == IF v.t = "number" THEN 2 * v.n + v.h ELSE 2 * v.n

LessThan(a, b) ==
  CASE IsNumeric(a) /\ IsNumeric(b) ->
         /\ ~IsNaN(a) /\ ~IsNaN(b)
         /\ a.s # "Infinity" /\ b.s # "-Infinity"
         /\ \/ a.s = "-Infinity" /\ b.s # "-Infinity"
            \/ b.s = "Infinity" /\ a.s # "Infinity"
            \/ b.s = "2^53" /\ a.s = ""
            \/ a.s = "" /\ b.s = "" /\ Twice(a) < Twice(b)

----------------------------------------------------------------------------
(* The functions a caller passes as conditions.  They are inputs: each is  *)
(* a function value with an identity and a behaviour.                      *)

\* (v) => v === 1
IsOne    == Fn(1)
\* (v) => v.length          (throws a TypeError when v is null or undefined)
HasLength == Fn(2)
\* (row) => row.a === 1
RowAIsOne == Fn(3)
\* (row) => row.b.length    (throws a TypeError when row.b is null or undefined)
RowBHasLength == Fn(4)

Nullish(v) == v.t \in {"undefined", "null"}

\* fn(arg)
Call(fn, arg) ==
  CASE fn = IsOne        -> Return(Bool(StrictEquals(arg, Num(1))))
    [] fn = HasLength    -> IF Nullish(arg) THEN Throw(TypeError)
                            ELSE Return(Get(arg, "length"))
    [] fn = RowAIsOne    -> Return(Bool(StrictEquals(Get(arg, "a"), Num(1))))
    [] fn = RowBHasLength -> IF Nullish(Get(arg, "b")) THEN Throw(TypeError)
                            ELSE Return(Get(Get(arg, "b"), "length"))

----------------------------------------------------------------------------
(* utils/functions: the type guards and the generic helpers.               *)

isFunction(value) == value.t = "function"

isNumber(value) == value.t = "number"

\* A mutant of isObject: an array is not taken as an object.
isObjectNotArray(value) == value.t = "object"

\* typeof value === 'object' && value !== null: an array is an object too.
isObject(value) == value.t \in {"object", "array"}

isArray(value) == value.t = "array"

\* Object.entries(obj)
getEntries(obj) == obj.o

\* a.every((v, i) => v === b[i]): every() does not call its callback on the
\* holes of a.
RECURSIVE everyEqual(_, _, _)
everyEqual(a, b, i) ==
  IF i >= Len(a.a) THEN TRUE
  ELSE IF a.a[i + 1].t = "empty" THEN everyEqual(a, b, i + 1)
  ELSE StrictEquals(a.a[i + 1], At(b, i)) /\ everyEqual(a, b, i + 1)

compareArrays(a, b) == Len(a.a) = Len(b.a) /\ everyEqual(a, b, 0)

----------------------------------------------------------------------------
(* QueryRowValidator.  A validation returns a value or throws what a       *)
(* caller's function threw.                                                *)

RECURSIVE validateConditions(_, _, _)
RECURSIVE everyCondition(_, _, _, _)

validateInnerObject(obj, conditionsObject, ignoreNullValues) ==
  validateConditions(obj, conditionsObject, ignoreNullValues)

\* A mutant of validateColumnCondition: a null or undefined condition is never
\* skipped.
validateColumnConditionNoSkip(row, columnName, condition, ignoreNullValues) ==
  LET cellValue == Get(row, columnName) IN
    CASE isFunction(condition) -> Call(condition, cellValue)
      [] isArray(condition) ->
           Return(Bool(IF isArray(cellValue) THEN compareArrays(cellValue, condition) ELSE FALSE))
      [] isObject(condition) ->
           IF isObject(cellValue)
           THEN validateInnerObject(cellValue, condition, ignoreNullValues)
           ELSE Return(Bool(FALSE))
      [] OTHER -> Return(Bool(StrictEquals(cellValue, condition)))

validateColumnCondition(row, columnName, condition, ignoreNullValues) ==
  IF ignoreNullValues /\ Nullish(condition) THEN Return(Bool(TRUE))
  ELSE LET cellValue == Get(row, columnName) IN
    CASE isFunction(condition) -> Call(condition, cellValue)
      [] isArray(condition) ->
           Return(Bool(IF isArray(cellValue) THEN compareArrays(cellValue, condition) ELSE FALSE))
      [] isObject(condition) ->
           IF isObject(cellValue)
           THEN validateInnerObject(cellValue, condition, ignoreNullValues)
           ELSE Return(Bool(FALSE))
      [] OTHER -> Return(Bool(StrictEquals(cellValue, condition)))

\* conditionsEntries.every(([columnName, condition]) => ...), from entry i on:
\* it stops at the first entry whose result is not truthy, or that throws.
everyCondition(row, entries, i, ignoreNullValues) ==
  IF i > Len(entries) THEN Return(Bool(TRUE))
  ELSE LET r == validateColumnCondition(row, entries[i].k, entries[i].v, ignoreNullValues) IN
    IF r.threw THEN r
    ELSE IF ~Truthy(r.v) THEN Return(Bool(FALSE))
    ELSE everyCondition(row, entries, i + 1, ignoreNullValues)

validateConditions(row, conditionsObject, ignoreNullValues) ==
  everyCondition(row, getEntries(conditionsObject), 1, ignoreNullValues)

\* QueryRowValidator.validate(row, {conditionsObject, ignoreNullValues})
validate(row, conditionsObject, ignoreNullValues) ==
  validateConditions(row, conditionsObject, ignoreNullValues)

----------------------------------------------------------------------------
(* utils/decorators/number-validaton and errors.                           *)

\* new InvalidArgumentError({method, param, argument, expected}): the error
\* is held as the configuration its message is built from.
InvalidArgumentError(method, param, argument, expected) ==
  [name |-> "InvalidArgumentError", method |-> method, param |-> param,
   argument |-> argument, expected |-> expected]

\* arguments[index]
Argument(actualArguments, index) ==
  IF index + 1 \in 1..Len(actualArguments) THEN actualArguments[index + 1] ELSE Undefined

\* Number.isSafeInteger
isSafeInteger(value) == value.t = "number" /\ value.s = "" /\ value.h = 0

\* actualValue < minValue of a number and a bound (minValue is an integer)
LessThanBound(actualValue, bound) == LessThan(actualValue, Num(bound))

RECURSIVE checkMinParams(_, _, _, _)
checkMinParams(methodName, params, actualArguments, i) ==
  IF i > Len(params) THEN Return(Undefined)
  ELSE LET actualValue == Argument(actualArguments, params[i].index)
           minValue    == params[i].value IN
    IF ~isNumber(actualValue) \/ LessThanBound(actualValue, minValue)
    THEN Throw(InvalidArgumentError(methodName, params[i].index, actualValue,
                                    "equal or greater than " \o ToString(minValue)))
    ELSE checkMinParams(methodName, params, actualArguments, i + 1)

RECURSIVE checkMaxParams(_, _, _, _)
checkMaxParams(methodName, params, actualArguments, i) ==
  IF i > Len(params) THEN Return(Undefined)
  ELSE LET actualValue == Argument(actualArguments, params[i].index)
           maxValue    == params[i].value IN
    IF ~isNumber(actualValue) \/ LessThan(Num(maxValue), actualValue)
    THEN Throw(InvalidArgumentError(methodName, params[i].index, actualValue,
                                    "equal or less than " \o ToString(maxValue)))
    ELSE checkMaxParams(methodName, params, actualArguments, i + 1)

RECURSIVE checkIntegerParams(_, _, _, _)
checkIntegerParams(methodName, params, actualArguments, i) ==
  IF i > Len(params) THEN Return(Undefined)
  ELSE LET actualValue == Argument(actualArguments, params[i].index) IN
    IF ~isSafeInteger(actualValue)
    THEN Throw(InvalidArgumentError(methodName, params[i].index, actualValue, "an integer"))
    ELSE checkIntegerParams(methodName, params, actualArguments, i + 1)

\* The metadata the parameter decorators of skip and limit record:
\* (@integer @min(0) n) gives one min parameter, no max parameter and one
\* integer parameter, each at index 0.
minParams     == <<[value |-> 0, index |-> 0]>>
maxParams     == <<>>
integerParams == <<[index |-> 0]>>

\* A mutant of validateNumbers: the min and max checks are left out.
validateNumbersIntegerOnly(propertyName, actualArguments) ==
  checkIntegerParams(propertyName, integerParams, actualArguments, 1)

\* A mutant of validateNumbers: the integer check runs first.
validateNumbersIntegerFirst(propertyName, actualArguments) ==
  LET x == checkIntegerParams(propertyName, integerParams, actualArguments, 1) IN
  IF x.threw THEN x
  ELSE checkMinParams(propertyName, minParams, actualArguments, 1)

\* A mutant of validateNumbers: the integer check is left out.
validateNumbersMinOnly(propertyName, actualArguments) ==
  checkMinParams(propertyName, minParams, actualArguments, 1)

\* The checks of the function validateNumbers puts in place of the method:
\* min, then max, then integer; the first that fails throws.
validateNumbers(propertyName, actualArguments) ==
  LET m == checkMinParams(propertyName, minParams, actualArguments, 1) IN
  IF m.threw THEN m
  ELSE LET x == checkMaxParams(propertyName, maxParams, actualArguments, 1) IN
    IF x.threw THEN x
    ELSE checkIntegerParams(propertyName, integerParams, actualArguments, 1)

----------------------------------------------------------------------------
(* utils/functions/sort.                                                   *)

\* property.startsWith('-') and property.substring(1) of the column names a
\* caller orders by.
startsWithMinus(property) == property \in {"-id", "-a"}

substring1(property) ==
  CASE property = "-id" -> "id"
    [] property = "-a"  -> "a"

\* sortByProperty(property)(a, b)
sortByProperty(property, a, b) ==
  LET sortOrder == IF startsWithMinus(property) THEN -1 ELSE 1
      prop      == IF startsWithMinus(property) THEN substring1(property) ELSE property
      result    == IF LessThan(Get(a, prop), Get(b, prop)) THEN -1
                   ELSE IF LessThan(Get(b, prop), Get(a, prop)) THEN 1 ELSE 0
  IN  result * sortOrder

\* sortByProperties(...props)(obj1, obj2): the while loop from property i on.
RECURSIVE sortByPropertiesFrom(_, _, _, _)
sortByPropertiesFrom(props, obj1, obj2, i) ==
  IF i > Len(props) THEN 0
  ELSE LET result == sortByProperty(props[i], obj1, obj2) IN
    IF result # 0 THEN result ELSE sortByPropertiesFrom(props, obj1, obj2, i + 1)

\* A mutant of sortByProperties: only the first property is compared.
sortByPropertiesFirstOnly(props, obj1, obj2) ==
  IF props = <<>> THEN 0 ELSE sortByProperty(props[1], obj1, obj2)

sortByProperties(props, obj1, obj2) == sortByPropertiesFrom(props, obj1, obj2, 1)

\* A mutant of InsertSorted: x goes before the elements it compares equal to.
RECURSIVE InsertSortedBeforeEqual(_, _, _)
InsertSortedBeforeEqual(sorted, x, props) ==
  IF sorted = <<>> THEN <<x>>
  ELSE IF sortByProperties(props, sorted[Len(sorted)], x) >= 0
       THEN Append(InsertSortedBeforeEqual(SubSeq(sorted, 1, Len(sorted) - 1), x, props),
                   sorted[Len(sorted)])
       ELSE Append(sorted, x)

\* Array.prototype.sort(compare) is stable: x goes after the last element
\* that does not compare greater than it.
RECURSIVE InsertSorted(_, _, _)
InsertSorted(sorted, x, props) ==
  IF sorted = <<>> THEN <<x>>
  ELSE IF sortByProperties(props, sorted[Len(sorted)], x) > 0
       THEN Append(InsertSorted(SubSeq(sorted, 1, Len(sorted) - 1), x, props),
                   sorted[Len(sorted)])
       ELSE Append(sorted, x)

RECURSIVE SortFrom(_, _, _, _)
SortFrom(seq, props, i, sorted) ==
  IF i > Len(seq) THEN sorted
  ELSE SortFrom(seq, props, i + 1, InsertSorted(sorted, seq[i], props))

\* A mutant of Sort: a sort that is not stable, it takes the elements from the
\* last to the first.
SortBackwards(seq, props) ==
  SortFrom([i \in 1..Len(seq) |-> seq[Len(seq) + 1 - i]], props, 1, <<>>)

Sort(seq, props) == SortFrom(seq, props, 1, <<>>)

----------------------------------------------------------------------------
(* Query.  A query is the record of its fields; a method takes the query   *)
(* and its arguments and gives the query after the call and what the call  *)
(* returned or threw.  The field #limit is limitValue here.                *)

This == Val("this", 0, 0, "", <<>>, <<>>)

Returned(q, v) == [q |-> q, threw |-> FALSE, v |-> v]
Threw(q, v)    == [q |-> q, threw |-> TRUE, v |-> v]

\* The fields of a Query right after its declaration, and the constructor.
construct(rowsArg) ==
  [rows |-> rowsArg, columns |-> <<>>, startAt |-> Num(0), limitValue |-> Undefined,
   ignoreNullValues |-> FALSE]

\* A mutant of getLimitedRows: the limit taken as the end index of one slice.
getLimitedRowsEndIsLimit(q) == Slice(q.rows, q.startAt, q.limitValue)

\* this.#rows.slice(this.#startAt).slice(0, this.#limit)
getLimitedRows(q) == Slice(Slice(q.rows, q.startAt, Undefined), Num(0), q.limitValue)

select_(q, columnsArg) ==
  Returned([q EXCEPT !.columns = IF isArray(columnsArg) THEN columnsArg.a ELSE <<columnsArg>>],
           This)

validateRow(q, row, condition) == validate(row, condition, q.ignoreNullValues)

\* What the callback of this.#rows.filter gives for a row.
filterCallback(q, condition, row) ==
  IF isFunction(condition) THEN Call(condition, row) ELSE validateRow(q, row, condition)

\* A mutant of filterRows: the rows are taken off #rows one by one, so that
\* the rows kept until a throw are what is stored.
filterRowsInPlace(q, condition) ==
  LET thrown == {i \in 1..Len(q.rows) : filterCallback(q, condition, q.rows[i]).threw} IN
  IF thrown # {}
  THEN LET first == CHOOSE i \in thrown : \A j \in thrown : i <= j IN
       Threw([q EXCEPT !.rows =
                SelectSeq(SubSeq(q.rows, 1, first - 1),
                          LAMBDA row : Truthy(filterCallback(q, condition, row).v))
                  \o SubSeq(q.rows, first, Len(q.rows))],
             filterCallback(q, condition, q.rows[first]).v)
  ELSE Returned([q EXCEPT !.rows = SelectSeq(q.rows,
                    LAMBDA row : Truthy(filterCallback(q, condition, row).v))], Undefined)

\* A mutant of filterRows: it filters the rows of the current window.
filterRowsOfWindow(q, condition) ==
  LET limited == getLimitedRows(q)
      thrown  == {i \in 1..Len(limited) : filterCallback(q, condition, limited[i]).threw} IN
  IF thrown # {}
  THEN Threw(q, filterCallback(q, condition,
                               limited[CHOOSE i \in thrown : \A j \in thrown : i <= j]).v)
  ELSE Returned([q EXCEPT !.rows = SelectSeq(limited,
                    LAMBDA row : Truthy(filterCallback(q, condition, row).v))], Undefined)

\* filter() calls the callback row by row: the first throw ends it, otherwise
\* it keeps the rows whose result is truthy, and #rows is assigned.
filterRows(q, condition) ==
  LET thrown == {i \in 1..Len(q.rows) : filterCallback(q, condition, q.rows[i]).threw} IN
  IF thrown # {}
  THEN Threw(q, filterCallback(q, condition,
                               q.rows[CHOOSE i \in thrown : \A j \in thrown : i <= j]).v)
  ELSE Returned([q EXCEPT !.rows = SelectSeq(q.rows,
                    LAMBDA row : Truthy(filterCallback(q, condition, row).v))], Undefined)

where_(q, condition) ==
  LET r == filterRows(q, condition) IN
  IF r.threw THEN r ELSE Returned(r.q, This)

filterWhere_(q, condition) ==
  LET r == filterRows([q EXCEPT !.ignoreNullValues = TRUE], condition) IN
  IF r.threw THEN r ELSE Returned([r.q EXCEPT !.ignoreNullValues = FALSE], This)

\* A mutant of orderBy: the first row of the sorted rows is put twice.
orderByRepeatsFirst(q, columnsArg) ==
  LET sorted == Sort(q.rows, columnsArg) IN
  Returned([q EXCEPT !.rows = IF sorted = <<>> THEN sorted ELSE <<sorted[1]>> \o sorted], This)

orderBy_(q, columnsArg) ==
  Returned([q EXCEPT !.rows = Sort(q.rows, columnsArg)], This)

count_(q) == Len(getLimitedRows(q))

exists_(q) == count_(q) > 0

first_(q) ==
  LET limited == getLimitedRows(q) IN
  IF Len(limited) # 0 THEN limited[1] ELSE Null

\* A mutant of last: the last row of the working set, whatever the window.
lastOfRows(q) == IF Len(q.rows) > 0 THEN q.rows[Len(q.rows)] ELSE Null

\* rows[this.count() - 1] ?? null
last_(q) ==
  LET limited == getLimitedRows(q)
      i       == count_(q) - 1 IN
  IF i >= 0 /\ i < Len(limited) /\ ~Nullish(limited[i + 1]) THEN limited[i + 1] ELSE Null

all_(q) == getLimitedRows(q)

\* A mutant of getFirstColumn: the default column is the first key of the first
\* row of the working set, whatever the window.
getFirstColumnOfRows(q) ==
  IF Len(q.columns) # 0 THEN q.columns[1]
  ELSE IF Len(q.rows) > 0 /\ Len(Keys(q.rows[1])) > 0 THEN Str(Keys(q.rows[1])[1])
  ELSE Null

\* Object.keys(firstObject)[0] is undefined for an object with no key.
getFirstColumn(q) ==
  IF Len(q.columns) # 0 THEN q.columns[1]
  ELSE LET firstObject == first_(q) IN
    IF Truthy(firstObject)
    THEN (IF Len(Keys(firstObject)) > 0 THEN Str(Keys(firstObject)[1]) ELSE Undefined)
    ELSE Null

\* A mutant of scalar: || in the place of ??, any falsy value gives false.
scalarOrFalse(q) ==
  LET firstObject == first_(q)
      firstColumn == getFirstColumn(q) IN
  IF Truthy(firstObject) /\ Truthy(firstColumn) /\ Truthy(Get(firstObject, firstColumn.s))
  THEN Get(firstObject, firstColumn.s)
  ELSE Bool(FALSE)

scalar_(q) ==
  LET firstObject == first_(q)
      firstColumn == getFirstColumn(q) IN
  IF Truthy(firstObject) /\ Truthy(firstColumn)
  THEN (IF Nullish(Get(firstObject, firstColumn.s)) THEN Bool(FALSE)
        ELSE Get(firstObject, firstColumn.s))
  ELSE Bool(FALSE)

column_(q) ==
  LET firstColumn == getFirstColumn(q)
      limited     == getLimitedRows(q) IN
  IF ~Truthy(firstColumn) THEN <<>>
  ELSE [i \in 1..Len(limited) |-> Get(limited[i], firstColumn.s)]

\* A mutant of values: the values of every own field, whatever the selection.
valuesOfEveryField(q) ==
  LET limited == getLimitedRows(q) IN
  [i \in 1..Len(limited) |-> Arr(Values(limited[i]))]

values_(q) ==
  LET limited == getLimitedRows(q) IN
  [i \in 1..Len(limited) |->
     IF Len(q.columns) # 0
     THEN Arr([j \in 1..Len(q.columns) |-> Get(limited[i], q.columns[j].s)])
     ELSE Arr(Values(limited[i]))]

\* A mutant of skip: the rows to skip add up.
skipAccumulates(q, actualArguments) ==
  LET checked == validateNumbers("skip", actualArguments) IN
  IF checked.threw THEN Threw(q, checked.v)
  ELSE Returned([q EXCEPT !.startAt = Num(@.n + Argument(actualArguments, 0).n)], This)

\* A mutant of skip: the method body runs before the checks.
skipAssignsFirst(q, actualArguments) ==
  LET checked == validateNumbers("skip", actualArguments) IN
  IF checked.threw THEN Threw([q EXCEPT !.startAt = Argument(actualArguments, 0)], checked.v)
  ELSE Returned([q EXCEPT !.startAt = Argument(actualArguments, 0)], This)

\* @validateNumbers skip(@integer @min(0) numberOfRows)
skip_(q, actualArguments) ==
  LET checked == validateNumbers("skip", actualArguments) IN
  IF checked.threw THEN Threw(q, checked.v)
  ELSE Returned([q EXCEPT !.startAt = Argument(actualArguments, 0)], This)

\* @validateNumbers limit(@integer @min(0) limit)
limit_(q, actualArguments) ==
  LET checked == validateNumbers("limit", actualArguments) IN
  IF checked.threw THEN Threw(q, checked.v)
  ELSE Returned([q EXCEPT !.limitValue = Argument(actualArguments, 0)], This)

----------------------------------------------------------------------------
(* The inputs of the model: the objects a caller queries and the arguments *)
(* it passes.                                                              *)

Row(identity, properties) == Val("object", identity, 0, "", <<>>, properties)

\* Four objects; the second holds an object that holds an object, the third
\* lists its fields in another order and holds sparse arrays, the fourth has
\* no field b and a first field whose value is 0.
Dataset ==
  << Row(1, <<P("id", Num(1)), P("a", Num(1)), P("b", Null)>>),
     Row(2, <<P("id", Num(2)), P("a", Num(2)), P("b", Arr(<<Num(1), Num(2)>>)),
              P("c", Obj(<<P("x", Num(1)), P("d", Obj(<<P("y", Num(2))>>))>>))>>),
     Row(3, <<P("b", Arr(<<Empty, Num(2)>>)), P("id", Num(3)), P("a", Num(1)),
              P("c", Obj(<<P("x", Num(1)), P("d", Obj(<<P("y", Num(3))>>)),
                           P("e", Arr(<<Empty, Num(2)>>))>>))>>),
     Row(4, <<P("z", Num(0)), P("id", Num(4)), P("a", Null)>>) >>

MaxRows == 3
MaxArg  == 2

\* The arrays a caller can build of at most n objects of the dataset, taken
\* in the order of the dataset from object i on.
RECURSIVE ArraysFrom(_, _)
ArraysFrom(i, n) ==
  IF i > Len(Dataset) \/ n = 0 THEN {<<>>}
  ELSE ArraysFrom(i + 1, n) \cup {<<Dataset[i]>> \o s : s \in ArraysFrom(i + 1, n - 1)}

Inputs == ArraysFrom(1, MaxRows)

\* Condition specifications.
Specifications ==
  { Obj(<<P("a", Num(1)), P("b", Null)>>),
    Obj(<<P("a", Null)>>),
    Obj(<<P("b", Undefined)>>),
    Obj(<<P("b", Arr(<<Num(1), Num(2)>>))>>),
    Obj(<<P("b", Arr(<<Num(2), Num(1)>>))>>),
    Obj(<<P("b", Arr(<<Num(1), Num(2), Num(3)>>))>>),
    Obj(<<P("b", Arr(<<Num(1)>>))>>),
    Obj(<<P("c", Obj(<<P("x", Num(1)), P("y", Null)>>))>>),
    Obj(<<P("c", Obj(<<P("d", Obj(<<P("y", Num(2))>>)), P("x", Num(1))>>))>>),
    Obj(<<P("c", Obj(<<P("e", Arr(<<Num(1), Num(2)>>))>>))>>),
    Obj(<<P("a", Obj(<<P("x", Num(1))>>))>>),
    Obj(<<P("b", Obj(<<>>))>>),
    Obj(<<P("a", Obj(<<>>))>>),
    Obj(<<P("a", IsOne)>>),
    Obj(<<P("a", Num(1)), P("b", HasLength)>>) }

RowPredicates == {RowAIsOne, RowBHasLength}

NumberArguments ==
  {Num(-1), Half(1), Half(-2), NaN, Infinity, NegativeInfinity, BeyondSafe, Str("1"),
   Undefined}
    \cup {Num(i) : i \in 0..MaxArg}

SelectArguments == {Str("a"), Arr(<<Str("b"), Str("a")>>)}

OrderArguments == {<<>>, <<"id">>, <<"-id">>, <<"a">>, <<"-a", "id">>, <<"a", "-id">>}

----------------------------------------------------------------------------
(* The state: the caller's array (input), the Query made from it (query,   *)
(* the record of its fields) and what the call just made handed to the     *)
(* caller (ret): the calls are synchronous, the caller takes the result or *)
(* catches the error and goes on to its next call.                         *)

VARIABLES input, query, ret

vars == <<input, query, ret>>

\* The call op(args) ended as r says.
Result(op, args, r) == [op |-> op, args |-> args, threw |-> r.threw, v |-> r.v]

\* Nothing is being handed to the caller: it is free to make a call.
Idle == [op |-> "", args |-> <<>>, threw |-> FALSE, v |-> Undefined]

\* Query.from(input): the constructor copies the array.
Init ==
  /\ input \in Inputs
  /\ query = construct(input)
  /\ ret = [op |-> "from", args |-> <<>>, threw |-> FALSE, v |-> This]

select ==
  /\ ret = Idle
  /\ \E columnsArg \in SelectArguments :
       LET r == select_(query, columnsArg) IN
       query' = r.q /\ ret' = Result("select", <<columnsArg>>, r) /\ UNCHANGED input

where ==
  /\ ret = Idle
  /\ \E condition \in Specifications \cup RowPredicates :
       LET r == where_(query, condition) IN
       query' = r.q /\ ret' = Result("where", <<condition>>, r) /\ UNCHANGED input

filterWhere ==
  /\ ret = Idle
  /\ \E condition \in Specifications :
       LET r == filterWhere_(query, condition) IN
       query' = r.q /\ ret' = Result("filterWhere", <<condition>>, r) /\ UNCHANGED input

orderBy ==
  /\ ret = Idle
  /\ \E columnsArg \in OrderArguments :
       LET r == orderBy_(query, columnsArg) IN
       query' = r.q /\ ret' = Result("orderBy", columnsArg, r) /\ UNCHANGED input

skip ==
  /\ ret = Idle
  /\ \E n \in NumberArguments :
       LET r == skip_(query, <<n>>) IN
       query' = r.q /\ ret' = Result("skip", <<n>>, r) /\ UNCHANGED input

limit ==
  /\ ret = Idle
  /\ \E n \in NumberArguments :
       LET r == limit_(query, <<n>>) IN
       query' = r.q /\ ret' = Result("limit", <<n>>, r) /\ UNCHANGED input

count ==
  /\ ret = Idle
  /\ ret' = Result("count", <<>>, Returned(query, Num(count_(query))))
  /\ UNCHANGED <<input, query>>

exists ==
  /\ ret = Idle
  /\ ret' = Result("exists", <<>>, Returned(query, Bool(exists_(query))))
  /\ UNCHANGED <<input, query>>

\* A mutant of first: the row is taken off the working set with shift().
firstShift ==
  /\ ret = Idle
  /\ ret' = Result("first", <<>>, Returned(query, first_(query)))
  /\ query' = [query EXCEPT !.rows = IF Len(@) > 0 THEN Tail(@) ELSE @]
  /\ UNCHANGED input

first ==
  /\ ret = Idle
  /\ ret' = Result("first", <<>>, Returned(query, first_(query)))
  /\ UNCHANGED <<input, query>>

last ==
  /\ ret = Idle
  /\ ret' = Result("last", <<>>, Returned(query, last_(query)))
  /\ UNCHANGED <<input, query>>

all ==
  /\ ret = Idle
  /\ ret' = Result("all", <<>>, Returned(query, Arr(all_(query))))
  /\ UNCHANGED <<input, query>>

scalar ==
  /\ ret = Idle
  /\ ret' = Result("scalar", <<>>, Returned(query, scalar_(query)))
  /\ UNCHANGED <<input, query>>

column ==
  /\ ret = Idle
  /\ ret' = Result("column", <<>>, Returned(query, Arr(column_(query))))
  /\ UNCHANGED <<input, query>>

values ==
  /\ ret = Idle
  /\ ret' = Result("values", <<>>, Returned(query, Arr(values_(query))))
  /\ UNCHANGED <<input, query>>

\* The caller has taken what the call returned, or caught what it threw.
resume ==
  /\ ret # Idle
  /\ ret' = Idle
  /\ UNCHANGED <<input, query>>

Next ==
  \/ resume
  \/ select \/ where \/ filterWhere \/ orderBy \/ skip \/ limit
  \/ count \/ exists \/ first \/ last \/ all \/ scalar \/ column \/ values

Spec == Init /\ [][Next]_vars

----------------------------------------------------------------------------
(* The caller keeps its array and its objects after Query.from(input) and  *)
(* can change them between two calls.  The constructor copies the array,   *)
(* [...rows]: the copy holds the same objects as the caller's array.       *)

\* obj[key] = value on an object that has the property.
AssignProperty(obj, key, value) ==
  [obj EXCEPT !.o = [i \in 1..Len(obj.o) |-> IF obj.o[i].k = key THEN P(key, value) ELSE obj.o[i]]]

\* The sequence after obj[key] = value was made on the object of that identity:
\* every reference to the object sees it.
AfterAssignment(seq, identity, key, value) ==
  [i \in 1..Len(seq) |->
     IF seq[i].n = identity THEN AssignProperty(seq[i], key, value) ELSE seq[i]]

\* The caller empties its array: input.length = 0.  The Query has its own.
callerClearsArray ==
  /\ ret = Idle
  /\ input # <<>>
  /\ input' = <<>>
  /\ UNCHANGED <<query, ret>>

\* The caller assigns a field of one of its objects: row.z = 1.  The object is
\* the one the Query holds.
callerAssignsField ==
  /\ ret = Idle
  /\ \E i \in 1..Len(input) :
       /\ Get(input[i], "z") = Num(0)
       /\ input' = AfterAssignment(input, input[i].n, "z", Num(1))
       /\ query' = [query EXCEPT !.rows = AfterAssignment(@, input[i].n, "z", Num(1))]
  /\ UNCHANGED ret

NextCaller == Next \/ callerClearsArray \/ callerAssignsField

SpecCaller == Init /\ [][NextCaller]_vars

----------------------------------------------------------------------------
(* The claims.                                                             *)

\* The rows at positions s .. s+l-1 of seq (positions counted from 0),
\* clipped to its length; every row from position s on when l is undefined.
WindowOf(seq, s, l) ==
  LET len == Len(seq)
      lo  == Min(s, len)
      hi  == IF l.t = "undefined" THEN len ELSE Min(s + l.n, len)
  IN  [i \in 1..(hi - lo) |-> seq[lo + i]]

Extractions == {"count", "exists", "first", "last", "all", "scalar", "column", "values"}

\* What the extraction op returns when it is called on the query q.
ExtractionValue(op, q) ==
  CASE op = "count"  -> Num(count_(q))
    [] op = "exists" -> Bool(exists_(q))
    [] op = "first"  -> first_(q)
    [] op = "last"   -> last_(q)
    [] op = "all"    -> Arr(all_(q))
    [] op = "scalar" -> scalar_(q)
    [] op = "column" -> Arr(column_(q))
    [] op = "values" -> Arr(values_(q))

\* C1: all() returns exactly the rows at positions startAt .. startAt+limit-1
\* (clipped to the length) of the working set, in its order; every row from
\* position startAt on when no limit was set; nothing when the limit is 0.
C1_AllReturnsWindow ==
  ret.op = "all" =>
    /\ ret.v = Arr(WindowOf(query.rows, query.startAt.n, query.limitValue))
    /\ (query.limitValue = Num(0) => ret.v.a = <<>>)
    /\ (query.limitValue = Undefined =>
          /\ Len(ret.v.a) = Max(Len(query.rows) - query.startAt.n, 0)
          /\ \A i \in 1..Len(ret.v.a) : ret.v.a[i] = query.rows[query.startAt.n + i])

\* all() has returned the one row of the window skip 1, limit 1 of three rows.
C1_Witness ==
  /\ ret.op = "all"
  /\ Len(query.rows) = 3
  /\ query.startAt = Num(1)
  /\ query.limitValue = Num(1)
  /\ ret.v.a = <<query.rows[2]>>

\* C2: in every state count(), exists(), first(), last() and all() agree on
\* one window: count() is the length of all(), exists() is count() > 0,
\* first() is all()[0], last() is all()[count()-1], and first() and last() are
\* null exactly when count() is 0; each call returns that value.
C2_ExtractionsAgree ==
  LET window == WindowOf(query.rows, query.startAt.n, query.limitValue)
      n      == Len(window)
      head   == IF n > 0 THEN window[1] ELSE Null
      end    == IF n > 0 THEN window[n] ELSE Null
  IN
  /\ all_(query) = window
  /\ count_(query) = n
  /\ exists_(query) = (n > 0)
  /\ first_(query) = head
  /\ last_(query) = end
  /\ (first_(query) = Null <=> count_(query) = 0)
  /\ (last_(query) = Null <=> count_(query) = 0)
  /\ (ret.op = "all" => ret.v = Arr(window))
  /\ (ret.op = "count" => ret.v = Num(n))
  /\ (ret.op = "exists" => ret.v = Bool(n > 0))
  /\ (ret.op = "first" => ret.v = head)
  /\ (ret.op = "last" => ret.v = end)

\* last() has returned the last row of a window that ends before the last row
\* of the working set.
C2_Witness ==
  /\ ret.op = "last"
  /\ Len(query.rows) = 3
  /\ query.startAt = Num(0)
  /\ query.limitValue = Num(2)
  /\ ret.v = query.rows[2]
  /\ ret.v # query.rows[3]

\* C3: the window is applied at extraction only.  where, filterWhere and
\* orderBy work on the whole working set, as if no skip and no limit had been
\* made, and leave startAt and limitValue alone; skip, limit and select leave
\* the rows alone, an accepted skip or limit storing its argument; all()
\* returns the window of the rows as they are then.
C3_Step ==
  LET whole == [query EXCEPT !.startAt = Num(0), !.limitValue = Undefined] IN
  /\ (ret'.op = "where" /\ ~ret'.threw =>
        query'.rows = where_(whole, ret'.args[1]).q.rows)
  /\ (ret'.op = "filterWhere" /\ ~ret'.threw =>
        query'.rows = filterWhere_(whole, ret'.args[1]).q.rows)
  /\ (ret'.op = "orderBy" =>
        /\ query'.rows = orderBy_(whole, ret'.args).q.rows
        /\ Len(query'.rows) = Len(query.rows)
        /\ \A i \in 1..Len(query.rows) :
             \E j \in 1..Len(query.rows) : query'.rows[j] = query.rows[i])
  /\ (ret'.op \in {"where", "filterWhere", "orderBy"} =>
        query'.startAt = query.startAt /\ query'.limitValue = query.limitValue)
  /\ (ret'.op \in {"skip", "limit", "select"} => query'.rows = query.rows)
  /\ (ret'.op = "skip" /\ ~ret'.threw => query'.startAt = ret'.args[1])
  /\ (ret'.op = "limit" /\ ~ret'.threw => query'.limitValue = ret'.args[1])
  /\ (ret'.op = "all" =>
        ret'.v = Arr(WindowOf(query'.rows, query'.startAt.n, query'.limitValue)))

C3_WindowOnlyAtExtraction == [][C3_Step]_vars

\* A where made after skip(1) and limit(1) has kept two of three rows.
C3_Witness ==
  /\ ret.op = "where"
  /\ ~ret.threw
  /\ Len(input) = 3
  /\ query.startAt = Num(1)
  /\ query.limitValue = Num(1)
  /\ Len(query.rows) = 2

\* C4: an extraction changes no field of the Query (nor the caller's array),
\* and what it returns is what the same call returns in the state it leaves:
\* repeating it, or calling another extraction first, changes nothing.
C4_Step ==
  ret'.op \in Extractions =>
    /\ query' = query
    /\ input' = input
    /\ \A op \in Extractions : ExtractionValue(op, query') = ExtractionValue(op, query)
    /\ ret'.v = ExtractionValue(ret'.op, query')

C4_ExtractionChangesNothing == [][C4_Step]_vars

\* first() has returned a row of a query that was filtered, windowed and
\* projected before.
C4_Witness ==
  /\ ret.op = "first"
  /\ Len(input) = 3
  /\ Len(query.rows) = 2
  /\ ret.v = query.rows[2]
  /\ query.startAt = Num(1)
  /\ query.columns # <<>>

NegativeInteger(v) == v.t = "number" /\ v.s = "" /\ v.h = 0 /\ v.n < 0

NonNegativeFraction(v) == v.t = "number" /\ v.s = "" /\ v.h = 1 /\ v.n >= 0

\* C5: skip(n) and limit(n) with a negative integer n throw an
\* InvalidArgumentError made of the method name, parameter 0, n and "equal or
\* greater than 0"; with a non-negative n that is no integer, one made of the
\* same and "an integer".
C5_InvalidArgument ==
  ret.op \in {"skip", "limit"} =>
    LET n == ret.args[1] IN
    /\ (NegativeInteger(n) =>
          /\ ret.threw
          /\ ret.v = [name |-> "InvalidArgumentError", method |-> ret.op, param |-> 0,
                      argument |-> n, expected |-> "equal or greater than 0"])
    /\ (NonNegativeFraction(n) =>
          /\ ret.threw
          /\ ret.v = [name |-> "InvalidArgumentError", method |-> ret.op, param |-> 0,
                      argument |-> n, expected |-> "an integer"])

\* limit(1.5) has thrown.
C5_Witness ==
  /\ ret.op = "limit"
  /\ ret.args = <<Half(1)>>
  /\ ret.threw
  /\ ret.v.expected = "an integer"

\* C6: a skip or limit that throws leaves every field of the Query as it was,
\* and every extraction returns after it what it returned before.
C6_Step ==
  ret'.op \in {"skip", "limit"} /\ ret'.threw =>
    /\ query'.rows = query.rows
    /\ query'.columns = query.columns
    /\ query'.startAt = query.startAt
    /\ query'.limitValue = query.limitValue
    /\ \A op \in Extractions : ExtractionValue(op, query') = ExtractionValue(op, query)

C6_FailedCallChangesNothing == [][C6_Step]_vars

\* skip(-1) has thrown on a query whose skip was 1 and whose limit was 2.
C6_Witness ==
  /\ ret.op = "skip"
  /\ ret.args = <<Num(-1)>>
  /\ ret.threw
  /\ ret.v.expected = "equal or greater than 0"
  /\ query.startAt = Num(1)
  /\ query.limitValue = Num(2)

\* The rows of seq that pass test, in their order.
Retained(seq, test(_)) == SelectSeq(seq, test)

\* A key of a specification is satisfied by a row: a function by a truthy
\* result, any other condition by strict equality.
KeySatisfied(row, key, condition) ==
  IF condition.t = "function"
  THEN LET r == Call(condition, Get(row, key)) IN ~r.threw /\ Truthy(r.v)
  ELSE StrictEquals(Get(row, key), condition)

\* A specification whose conditions are scalar literals and functions.
IsFlatSpecification(spec) ==
  /\ spec.t = "object"
  /\ \A i \in 1..Len(spec.o) : spec.o[i].v.t \notin {"array", "object"}

\* C7: where(spec) keeps exactly the rows of the working set that satisfy
\* every key of spec (a literal by strict equality, a function by a truthy
\* result), in their order.
C7_Step ==
  ret'.op = "where" /\ ~ret'.threw /\ IsFlatSpecification(ret'.args[1]) =>
    LET spec == ret'.args[1] IN
    query'.rows = Retained(query.rows,
                    LAMBDA row : \A i \in 1..Len(spec.o) :
                                   KeySatisfied(row, spec.o[i].k, spec.o[i].v))

C7_WhereKeepsSatisfyingRows == [][C7_Step]_vars

\* The specification without its null and undefined conditions, at every
\* nesting level.
RECURSIVE StripEntries(_)
StripEntries(o) ==
  IF o = <<>> THEN <<>>
  ELSE LET e    == Head(o)
           rest == StripEntries(Tail(o)) IN
    IF Nullish(e.v) THEN rest
    ELSE IF e.v.t = "object" THEN <<P(e.k, Obj(StripEntries(e.v.o)))>> \o rest
    ELSE <<e>> \o rest

StripNulls(spec) == Obj(StripEntries(spec.o))

\* C8: filterWhere(spec) ends as where(spec') does on the same working set,
\* spec' being spec without its null and undefined conditions at every
\* nesting level: the same rows are kept, or both throw; when every condition
\* of spec is null or undefined the working set is unchanged.
C8_Step ==
  ret'.op = "filterWhere" =>
    LET spec == ret'.args[1]
        w    == where_([query EXCEPT !.ignoreNullValues = FALSE], StripNulls(spec)) IN
    /\ ret'.threw = w.threw
    /\ query'.rows = w.q.rows
    /\ (StripNulls(spec) = Obj(<<>>) => ~ret'.threw /\ query'.rows = query.rows)

C8_FilterWhereIgnoresNulls == [][C8_Step]_vars

\* filterWhere({a: 1, b: null}) has kept a row whose b is not null.
C8_Witness ==
  /\ ret.op = "filterWhere"
  /\ ~ret.threw
  /\ ret.args = <<Obj(<<P("a", Num(1)), P("b", Null)>>)>>
  /\ Len(input) = 3
  /\ Len(query.rows) = 2
  /\ \E i \in 1..2 : Get(query.rows[i], "b") # Null

\* C9: where({k: null}) keeps exactly the rows whose field k is strictly
\* equal to null, whatever filterWhere calls were made before.
C9_Step ==
  /\ ret'.op = "where"
  /\ ~ret'.threw
  /\ ret'.args[1].t = "object"
  /\ Len(ret'.args[1].o) = 1
  /\ ret'.args[1].o[1].v = Null
  => query'.rows = Retained(query.rows, LAMBDA row : Get(row, ret'.args[1].o[1].k) = Null)

C9_WhereNullIsLiteral == [][C9_Step]_vars

\* The value is an array of the length of the condition whose elements are
\* strictly equal to those of the condition, position by position.
ArrayMatches(value, condition) ==
  /\ value.t = "array"
  /\ Len(value.a) = Len(condition.a)
  /\ \A i \in 0..(Len(condition.a) - 1) : StrictEquals(At(value, i), At(condition, i))

\* C10: a key whose condition is an array is satisfied iff the value of the
\* row is an array of the same length with pairwise strictly equal elements.
C10_Step ==
  /\ ret'.op \in {"where", "filterWhere"}
  /\ ~ret'.threw
  /\ ret'.args[1].t = "object"
  /\ Len(ret'.args[1].o) = 1
  /\ ret'.args[1].o[1].v.t = "array"
  => query'.rows = Retained(query.rows,
                     LAMBDA row : ArrayMatches(Get(row, ret'.args[1].o[1].k),
                                               ret'.args[1].o[1].v))

C10_ArrayConditionIsPairwise == [][C10_Step]_vars

\* matches(row, spec, ignoreNulls) as the contract of the condition
\* specification states it: every key of spec is satisfied by row; a null or
\* undefined condition is skipped when ignoreNulls; an array condition asks
\* for an array with pairwise strictly equal elements; a nested object asks
\* for an object that matches it in the same mode; a function for a truthy
\* result; any other condition for strict equality.
RECURSIVE Matches(_, _, _)
Matches(row, spec, ignoreNulls) ==
  \A i \in 1..Len(spec.o) :
    LET condition == spec.o[i].v
        cellValue == Get(row, spec.o[i].k) IN
    IF ignoreNulls /\ Nullish(condition) THEN TRUE
    ELSE CASE condition.t = "function" -> KeySatisfied(row, spec.o[i].k, condition)
           [] condition.t = "array"    -> ArrayMatches(cellValue, condition)
           [] condition.t = "object"   ->
                cellValue.t \in {"object", "array"} /\ Matches(cellValue, condition, ignoreNulls)
           [] OTHER -> StrictEquals(cellValue, condition)

\* A specification of one key whose condition is a nested object.
IsNestedSpecification(spec) ==
  spec.t = "object" /\ Len(spec.o) = 1 /\ spec.o[1].v.t = "object"

\* C11: a key whose condition is a nested object is satisfied iff the value of
\* the row for the key is an object that matches the nested specification, at
\* every depth and in the null-tolerance mode of the call (filterWhere ignores
\* nulls); a value that is no object, or a missing field, fails the key and
\* raises no error.
C11_Step ==
  ret'.op \in {"where", "filterWhere"} /\ IsNestedSpecification(ret'.args[1]) =>
    LET spec == ret'.args[1]
        mode == ret'.op = "filterWhere" \/ query.ignoreNullValues IN
    /\ ~ret'.threw
    /\ query'.rows = Retained(query.rows,
          LAMBDA row : /\ Get(row, spec.o[1].k).t \in {"object", "array"}
                       /\ Matches(Get(row, spec.o[1].k), spec.o[1].v, mode))

C11_NestedObjectIsRecursive == [][C11_Step]_vars

\* t holds the elements of s, each as often as s does.
IsPermutation(s, t) ==
  /\ Len(s) = Len(t)
  /\ \A i \in 1..Len(s) :
       Cardinality({j \in 1..Len(t) : t[j] = s[i]}) = Cardinality({j \in 1..Len(s) : s[j] = s[i]})

\* A column of an ordering: its direction and the field it names.
IsDescending(col) == col \in {"-id", "-a"}

FieldOf(col) == IF col = "-id" THEN "id" ELSE IF col \in {"-a", "a"} THEN "a" ELSE col

\* The place of a value in the order of numbers; null counts as 0.
OrderKey(v) == IF v.t = "number" THEN 2 * v.n + v.h ELSE 0

\* x is strictly before y in the direction of the column; x and y are equal on it.
Before(col, x, y) ==
  IF IsDescending(col)
  THEN OrderKey(Get(x, FieldOf(col))) > OrderKey(Get(y, FieldOf(col)))
  ELSE OrderKey(Get(x, FieldOf(col))) < OrderKey(Get(y, FieldOf(col)))

EqualOn(col, x, y) == OrderKey(Get(x, FieldOf(col))) = OrderKey(Get(y, FieldOf(col)))

\* seq is ordered lexicographically by the columns: of two rows, the later one
\* is not before the earlier one on the first column they differ on.
IsOrderedBy(seq, columns) ==
  \A i, j \in 1..Len(seq) : i < j =>
    \A k \in 1..Len(columns) :
      (\A m \in 1..(k - 1) : EqualOn(columns[m], seq[i], seq[j]))
        => ~Before(columns[k], seq[j], seq[i])

\* C12: after orderBy(c1, ..., cn) the working set is a permutation of the
\* working set before, ordered lexicographically by the columns, each column
\* in its own direction (descending when prefixed with '-').
C12_Step ==
  ret'.op = "orderBy" =>
    /\ IsPermutation(query.rows, query'.rows)
    /\ IsOrderedBy(query'.rows, ret'.args)

C12_OrderByIsLexicographic == [][C12_Step]_vars

\* orderBy('-a', 'id') has put the rows of ids 1, 2, 3 in the order 2, 1, 3.
C12_Witness ==
  /\ ret.op = "orderBy"
  /\ ret.args = <<"-a", "id">>
  /\ Len(query.rows) = 3
  /\ [i \in 1..3 |-> Get(query.rows[i], "id")] = <<Num(2), Num(1), Num(3)>>

\* The position of a row in a sequence that holds it once.
PositionOf(seq, row) == CHOOSE i \in 1..Len(seq) : seq[i] = row

\* C13: orderBy is stable: two rows that compare equal on every listed column
\* keep the relative order they had in the working set before the call.
C13_Step ==
  ret'.op = "orderBy" =>
    \A i, j \in 1..Len(query.rows) :
      /\ i < j
      /\ \A k \in 1..Len(ret'.args) : EqualOn(ret'.args[k], query.rows[i], query.rows[j])
      => PositionOf(query'.rows, query.rows[i]) < PositionOf(query'.rows, query.rows[j])

C13_OrderByIsStable == [][C13_Step]_vars

\* orderBy('a') has been made on the rows of ids 3, 2, 1: the rows 3 and 1 are
\* equal on a and are still in that order, before row 2.
C13_Witness ==
  /\ ret.op = "orderBy"
  /\ ret.args = <<"a">>
  /\ Len(query.rows) = 3
  /\ [i \in 1..3 |-> Get(query.rows[i], "id")] = <<Num(3), Num(1), Num(2)>>

\* The window of a query.
Window(q) == WindowOf(q.rows, q.startAt.n, q.limitValue)

\* There is a column for scalar() and column(): one was selected, or the
\* window has a first row.
HasSingleColumn(q) == q.columns # <<>> \/ Window(q) # <<>>

\* Its name: the first selected column, else the first field name of the
\* first row of the window.
SingleColumn(q) ==
  IF q.columns # <<>> THEN q.columns[1].s ELSE Window(q)[1].o[1].k

\* C14: scalar() and column() work on one column: the first selected column
\* when there is a selection, else the first field name of the first row of
\* the window, used for every row of the window; with no selection and an
\* empty window column() returns an empty array and scalar() returns false.
C14_SingleColumn ==
  LET window == Window(query) IN
  /\ column_(query) =
       IF HasSingleColumn(query)
       THEN [i \in 1..Len(window) |-> Get(window[i], SingleColumn(query))]
       ELSE <<>>
  /\ (window # <<>> =>
        scalar_(query) \in {Get(window[1], SingleColumn(query)), Bool(FALSE)})
  /\ (~HasSingleColumn(query) => column_(query) = <<>> /\ scalar_(query) = Bool(FALSE))
  /\ (ret.op = "column" => ret.v = Arr(column_(query)))

\* column() has been called with no selection after skip(1): the window starts
\* at the row whose first field is b, and b is read of both rows of the window.
C14_Witness ==
  /\ ret.op = "column"
  /\ query.columns = <<>>
  /\ query.startAt = Num(1)
  /\ Len(query.rows) = 3
  /\ query.rows[2].o[1].k = "b"
  /\ Len(ret.v.a) = 2
  /\ ret.v.a = <<Get(query.rows[2], "b"), Get(query.rows[3], "b")>>

\* C15: scalar() returns the value of the single column of the first row of
\* the window; it returns false only when the window is empty, there is no
\* column, or the value is null or undefined: a present falsy value is returned
\* as it is.
C15_ScalarIsNullishOnly ==
  LET window == Window(query)
      value  == Get(window[1], SingleColumn(query)) IN
  /\ scalar_(query) =
       IF window = <<>> \/ ~HasSingleColumn(query) THEN Bool(FALSE)
       ELSE IF value.t \in {"null", "undefined"} THEN Bool(FALSE)
       ELSE value
  /\ (ret.op = "scalar" => ret.v = scalar_(query))

\* scalar() has returned the 0 that the first row of the window holds.
C15_Witness ==
  /\ ret.op = "scalar"
  /\ ret.v = Num(0)
  /\ query.columns = <<>>
  /\ query.startAt = Num(1)
  /\ Len(query.rows) = 2
  /\ Get(query.rows[2], "z") = Num(0)

\* C16: values() returns one entry for each row of the window, in the order of
\* the window: the values of the row for the selected columns in the order of
\* the selection, or, with no selection, the values of every own field of the
\* row in enumeration order.
C16_ValuesProjectsSelection ==
  LET window == Window(query)
      entry(row) ==
        IF query.columns # <<>>
        THEN Arr([j \in 1..Len(query.columns) |-> Get(row, query.columns[j].s)])
        ELSE Arr([j \in 1..Len(row.o) |-> row.o[j].v]) IN
  /\ values_(query) = [i \in 1..Len(window) |-> entry(window[i])]
  /\ (ret.op = "values" => ret.v = Arr(values_(query)))

\* values() has returned the values of b and a, in that order, of the two rows
\* of a window.
C16_Witness ==
  /\ ret.op = "values"
  /\ query.columns = <<Str("b"), Str("a")>>
  /\ query.limitValue = Num(2)
  /\ Len(query.rows) = 3
  /\ Len(ret.v.a) = 2
  /\ ret.v.a[1] = Arr(<<Null, Num(1)>>)
  /\ ret.v.a[2].a[2] = Num(2)

\* C17: Query.from copies the caller's array and the engine never changes it
\* nor holds a reference through which it can be changed from outside: no
\* call of a method of the Query changes the caller's array, and no change
\* the caller makes after from() changes what any extraction returns.
C17_Step ==
  /\ (ret' # ret => input' = input)
  /\ (ret' = ret /\ input' # input =>
        \A op \in Extractions : ExtractionValue(op, query') = ExtractionValue(op, query))

C17_InputIsCopied == [][C17_Step]_vars

\* A row satisfies a condition of where: a function over the row by a truthy
\* result, a specification by matching it with nulls taken as literals.
Satisfies(row, condition) ==
  IF condition.t = "function"
  THEN LET r == Call(condition, row) IN ~r.threw /\ Truthy(r.v)
  ELSE Matches(row, condition, FALSE)

\* The conditions that hold no function that can throw.
NeverThrows(condition) ==
  /\ condition # RowBHasLength
  /\ \A i \in 1..Len(condition.o) : condition.o[i].v # HasLength

\* C18: filter calls accumulate as a conjunction: after where(c1) and
\* where(c2), in either order, the working set holds exactly the rows of the
\* working set before that satisfy both c1 and c2, in their order.
C18_Step ==
  ret'.op = "where" /\ ~ret'.threw /\ NeverThrows(ret'.args[1]) =>
    \A c1 \in {c \in Specifications \cup RowPredicates : NeverThrows(c)} :
      LET c2   == ret'.args[1]
          both == Retained(query.rows,
                           LAMBDA row : Satisfies(row, c1) /\ Satisfies(row, c2)) IN
      /\ where_(query', c1).q.rows = both
      /\ where_(where_(query, c1).q, c2).q.rows = both

C18_FiltersAccumulate == [][C18_Step]_vars

\* s holds rows of t only, in the order they have in t (the rows of t are
\* distinct).
IsSubsequence(s, t) ==
  /\ \A i \in 1..Len(s) : \E j \in 1..Len(t) : t[j] = s[i]
  /\ \A i, j \in 1..Len(s) : i < j => PositionOf(t, s[i]) < PositionOf(t, s[j])

\* The rows are rows of the input, none more often than the input holds it.
RowsAreInputRows(rows, original) ==
  /\ Len(rows) <= Len(original)
  /\ \A i \in 1..Len(rows) :
       /\ \E j \in 1..Len(original) : original[j] = rows[i]
       /\ Cardinality({j \in 1..Len(rows) : rows[j] = rows[i]})
            <= Cardinality({j \in 1..Len(original) : original[j] = rows[i]})

\* C19: in every state the working set is no longer than the input and holds
\* rows of the input only, none more often than the input does: where and
\* filterWhere only remove rows, orderBy only permutes them, no other call
\* changes the working set.
C19_Step ==
  /\ RowsAreInputRows(query.rows, input)
  /\ RowsAreInputRows(query'.rows, input')
  /\ (ret'.op \in {"where", "filterWhere"} => IsSubsequence(query'.rows, query.rows))
  /\ (ret'.op = "orderBy" => IsPermutation(query.rows, query'.rows))
  /\ (ret'.op \notin {"where", "filterWhere", "orderBy"} => query'.rows = query.rows)

C19_RowsComeFromInput == [][C19_Step]_vars

\* orderBy has reordered the two rows that a filter left of three.
C19_Witness ==
  /\ ret.op = "orderBy"
  /\ Len(input) = 3
  /\ Len(query.rows) = 2
  /\ query.rows = <<input[3], input[1]>>

IsNonNegativeSafeInteger(v) == v.t = "number" /\ v.s = "" /\ v.h = 0 /\ v.n >= 0

\* C20: in every state startAt is a non-negative safe integer and limitValue
\* is unset or a non-negative safe integer: skip(n) and limit(n) store n when n
\* is a safe integer that is not negative, and throw an InvalidArgumentError
\* for any other argument, storing nothing.
C20_WindowFieldsAreValid ==
  /\ IsNonNegativeSafeInteger(query.startAt)
  /\ query.limitValue = Undefined \/ IsNonNegativeSafeInteger(query.limitValue)
  /\ (ret.op \in {"skip", "limit"} =>
        LET n == ret.args[1] IN
        IF IsNonNegativeSafeInteger(n)
        THEN /\ ~ret.threw
             /\ ret.op = "skip" => query.startAt = n
             /\ ret.op = "limit" => query.limitValue = n
        ELSE /\ ret.threw
             /\ ret.v.name = "InvalidArgumentError"
             /\ ret.v.method = ret.op
             /\ ret.v.argument = n)

\* limit(NaN) has thrown on a query whose skip is 1 and whose limit is 2.
C20_Witness ==
  /\ ret.op = "limit"
  /\ ret.args = <<NaN>>
  /\ ret.threw
  /\ query.startAt = Num(1)
  /\ query.limitValue = Num(2)

\* C21: ignoreNullValues is true only while a filterWhere call runs: in every
\* state between two calls it is false, also after a filterWhere that ended
\* because a function of its specification threw.
C21_FlagIsFalseBetweenCalls == query.ignoreNullValues = FALSE

\* C22: select, skip and limit overwrite: select stores its argument as the
\* columns (one name as a sequence of one), a skip or limit that returns
\* stores its argument as startAt or limitValue, whatever was stored before,
\* and no other call changes the three fields; skip(s) then limit(l) leaves
\* the query that limit(l) then skip(s) leaves.
C22_Step ==
  /\ (ret'.op = "select" =>
        query'.columns = IF ret'.args[1].t = "array" THEN ret'.args[1].a ELSE <<ret'.args[1]>>)
  /\ (ret'.op # "select" => query'.columns = query.columns)
  /\ (ret'.op = "skip" /\ ~ret'.threw =>
        /\ query'.startAt = ret'.args[1]
        /\ all_(query') = WindowOf(query.rows, ret'.args[1].n, query.limitValue)
        /\ \A l \in {n \in NumberArguments : IsNonNegativeSafeInteger(n)} :
             limit_(query', <<l>>).q = skip_(limit_(query, <<l>>).q, ret'.args).q)
  /\ (~(ret'.op = "skip" /\ ~ret'.threw) => query'.startAt = query.startAt)
  /\ (ret'.op = "limit" /\ ~ret'.threw => query'.limitValue = ret'.args[1])
  /\ (~(ret'.op = "limit" /\ ~ret'.threw) => query'.limitValue = query.limitValue)

C22_WindowAndSelectionOverwrite == [][C22_Step]_vars

\* skip(1) has returned on a query with a limit and a selection: one row of
\* three is skipped.
C22_Witness ==
  /\ ret.op = "skip"
  /\ ret.args = <<Num(1)>>
  /\ ~ret.threw
  /\ query.startAt = Num(1)
  /\ query.limitValue = Num(2)
  /\ query.columns = <<Str("b"), Str("a")>>
  /\ Len(query.rows) = 3
  /\ Len(all_(query)) = 2

\* C23: chained orderBy calls compose as a stable re-sort: after orderBy(a),
\* an orderBy(b) leaves the working set in the order that one orderBy(b, a)
\* gives to the working set before: the later call is the primary key, the
\* earlier one breaks its ties.
C23_Step ==
  ret'.op = "orderBy" =>
    \A b \in OrderArguments :
      orderBy_(query', b).q.rows = orderBy_(query, b \o ret'.args).q.rows

C23_OrderByComposes == [][C23_Step]_vars

\* orderBy('-id') has put three rows in the order 3, 2, 1; an orderBy('a')
\* gives 3, 1, 2 from there: the rows 3 and 1, equal on a, stay in descending
\* order of id.
C23_Witness ==
  /\ ret.op = "orderBy"
  /\ ret.args = <<"-id">>
  /\ Len(query.rows) = 3
  /\ [i \in 1..3 |-> Get(query.rows[i], "id")] = <<Num(3), Num(2), Num(1)>>
  /\ [i \in 1..3 |-> Get(orderBy_(query, <<"a">>).q.rows[i], "id")] = <<Num(3), Num(1), Num(2)>>

\* A number below 0.
IsBelowZero(v) ==
  v.t = "number" /\ (v.s = "-Infinity" \/ (v.s = "" /\ 2 * v.n + v.h < 0))

\* C24: the lower bound is checked first: skip(n) and limit(n) with an n that
\* is no number, or a number below 0 (an integer or not), throw with the
\* expectation "equal or greater than 0"; they throw with "an integer" exactly
\* for a number that is not below 0 (NaN and Infinity included) and is no safe
\* integer.
C24_LowerBoundIsCheckedFirst ==
  ret.op \in {"skip", "limit"} =>
    LET n == ret.args[1] IN
    /\ (n.t # "number" \/ IsBelowZero(n) =>
          ret.threw /\ ret.v.expected = "equal or greater than 0")
    /\ ((ret.threw /\ ret.v.expected = "an integer")
          <=> (n.t = "number" /\ ~IsBelowZero(n) /\ ~IsNonNegativeSafeInteger(n)))

\* skip(-1.5) has thrown with the expectation of the lower bound.
C24_Witness ==
  /\ ret.op = "skip"
  /\ ret.args = <<Half(-2)>>
  /\ ret.threw
  /\ ret.v.expected = "equal or greater than 0"

\* C25: filtering is all or nothing: when a function of the caller throws
\* while where or filterWhere evaluates the rows (a function over the row on
\* a row it cannot read, a function of a field on a row that reaches it), the
\* call throws what the function threw and rows, columns, startAt and
\* limitValue are as before the call.
C25_Step ==
  ret'.op \in {"where", "filterWhere"} =>
    /\ (ret'.threw =>
          /\ ret'.v = TypeError
          /\ query'.rows = query.rows
          /\ query'.columns = query.columns
          /\ query'.startAt = query.startAt
          /\ query'.limitValue = query.limitValue)
    /\ (ret'.args[1] = RowBHasLength =>
          (ret'.threw <=> \E i \in 1..Len(query.rows) :
                            Get(query.rows[i], "b").t \in {"null", "undefined"}))
    /\ (ret'.args[1] = Obj(<<P("a", Num(1)), P("b", HasLength)>>) =>
          (ret'.threw <=> \E i \in 1..Len(query.rows) :
                            /\ Get(query.rows[i], "a") = Num(1)
                            /\ Get(query.rows[i], "b").t \in {"null", "undefined"}))

C25_FilterIsAllOrNothing == [][C25_Step]_vars

\* where((row) => row.b.length) has thrown on the second of three rows, after
\* it kept none or one: the three rows are still there.
C25_Witness ==
  /\ ret.op = "where"
  /\ ret.args = <<RowBHasLength>>
  /\ ret.threw
  /\ Len(query.rows) = 3
  /\ Get(query.rows[1], "b").t = "array"
  /\ Get(query.rows[2], "b").t = "null"
  /\ query.startAt = Num(1)

\* C26: a nested object condition with no key of its own is satisfied by
\* every row whose value for the key is an object, arrays included, whatever
\* the value holds, and by no row whose value is a primitive, null or
\* missing; nothing is compared by identity or by content.
C26_Step ==
  /\ ret'.op \in {"where", "filterWhere"}
  /\ ret'.args[1].t = "object"
  /\ Len(ret'.args[1].o) = 1
  /\ ret'.args[1].o[1].v = Obj(<<>>)
  => /\ ~ret'.threw
     /\ query'.rows = Retained(query.rows,
           LAMBDA row : Get(row, ret'.args[1].o[1].k).t \in {"object", "array"})

C26_EmptyObjectMatchesAnyObject == [][C26_Step]_vars

\* where({b: {}}) has kept the two rows whose b is an array, of different
\* contents, and dropped the row whose b is null.
C26_Witness ==
  /\ ret.op = "where"
  /\ ret.args = <<Obj(<<P("b", Obj(<<>>))>>)>>
  /\ Len(input) = 3
  /\ Get(input[1], "b") = Null
  /\ Len(query.rows) = 2
  /\ Get(query.rows[1], "b") = Arr(<<Num(1), Num(2)>>)
  /\ Get(query.rows[2], "b") = Arr(<<Empty, Num(2)>>)

====
